---- MODULE Spec2Model ----
(***************************************************************************)
(* State-machine model of the Anthropic connector.                         *)
(*                                                                         *)
(*   Spec     : the tool-enabled connector (main + processModelRequest +   *)
(*              initializeMCPClients + callTool).                          *)
(*   SpecLoop : the loop-based connector (main with the do/while retry     *)
(*              loop).                                                     *)
(*   SpecMap  : the response normalizer mapToResponse as a pure function.  *)
(*   SpecExtract : the attachment resolver's extractUrls as a pure         *)
(*              function of the references matched in a prompt.            *)
(*                                                                         *)
(* A JavaScript string is a sequence of tokens (TLA+ strings); string      *)
(* concatenation is \o.  Names are sequences of characters, so that        *)
(* split('_') and replace(/_/g, '-') are computed, not assumed.            *)
(* An optional value (null / undefined) is <<>>, a present value v is <<v>>.*)
(***************************************************************************)
EXTENDS Integers, Sequences, FiniteSets, TLC

VARIABLES
    model,             \* main's parameter `model`
    prompts,           \* main's parameter `prompts`
    mcpServers,        \* properties.tools.mcpServers, in Object.entries order
    pc,                \* position of the single logical task
    index,             \* loop variable of main's for loop
    messageHistory,    \* the conversation log
    outputs,           \* the Outcome list
    retries,           \* remaining retry budget of the current call chain
    clients,           \* tool registry built by initializeMCPClients
    connected,         \* number of mcpServers entries already processed
    opened,            \* connections whose connect() succeeded
    closed,            \* closed[c] = number of close() calls on connection c
    closing,           \* position of the finally loop in Object.values(mcpClients)
    launched,          \* toolUsePromises of the current round (tool-use ids)
    pending,           \* tool calls in flight
    assistantResponse, \* local of processModelRequest
    thinkingContent,   \* local of processModelRequest
    usage,             \* response.usage of the round being handled
    result,            \* how main's try block completed
    response,          \* the ConnectorResponse computed by main's return
    rounds,            \* number of provider responses that held a tool_use block
    calls,             \* history: provider calls made in the run
    roundCalls,        \* history: provider calls made in the current round
    roundRateFails,    \* history: rate-limit failures in the current round
    lenAtRound,        \* history: Len(messageHistory) when the round started
    recorded,          \* history: the Outcome of the current round is in outputs
    failure,           \* history: the error that ended the run, if any
    invoked,           \* history: client.callTool invocations, in order
    properties,        \* main's parameter `properties` (without its tools entry)
    request,           \* the argument of the last anthropic.messages.create call
    responseContent,   \* response.content of the last provider response
    rejected,          \* history (loop-based connector): rejected provider calls
    urls,              \* extractUrls: matches of urlRegex not yet classified
    extracted          \* extractUrls: its local `result`

vars == << model, prompts, mcpServers, pc, index, messageHistory, outputs,
           retries, clients, connected, opened, closed, closing, launched,
           pending, assistantResponse, thinkingContent, usage, result,
           response, rounds, calls, roundCalls, roundRateFails, lenAtRound,
           recorded, failure, invoked, properties, request,
           responseContent, rejected, urls, extracted >>

-----------------------------------------------------------------------------
(* Bounds of the model *)

MaxPrompts == 2
MaxRounds == 1
MaxOut == 3

(* Program constants *)

DefaultRetries == 3
RateLimitStatus == 429

-----------------------------------------------------------------------------
(* Values *)

Null == <<>>
Some(v) == <<v>>

Last(s) == s[Len(s)]

RECURSIVE SeqsUpTo(_, _)
SeqsUpTo(S, n) ==
    IF n = 0 THEN {<<>>}
    ELSE LET shorter == SeqsUpTo(S, n - 1)
         IN  shorter \cup {Append(s, x) : s \in {t \in shorter : Len(t) = n - 1}, x \in S}

Models == {<<"claude-3-7-sonnet-", "latest">>, <<"claude-3-opus-20240229">>}

\* A prompt is its text plus what extractUrls finds in it.
PlainPrompt == [text |-> <<"hello">>, images |-> 0, pdfs |-> 0]
ImagePrompt == [text |-> <<"Describe ", "/tmp/a.png">>, images |-> 1, pdfs |-> 0]
PromptSamples == {PlainPrompt, ImagePrompt}

\* Configured tool providers: names in Object.entries order.
ServerConfigs ==
    { <<>>,
      << <<"f","s">> >>,
      << <<"f","s">>, <<"a","_","b">> >>,
      << <<"a","_","b">>, <<"a","-","b">> >> }

\* The raw tool names a provider lists (client.listTools()).
ListTools(serverName) ==
    IF serverName = <<"f","s">> THEN << <<"r","_","f">> >> ELSE << <<"t">> >>

\* A tool name no configured provider advertises.
UnknownTool == <<"x","_","t">>

Digit == <<"0", "1", "2", "3", "4", "5", "6", "7", "8", "9">>
ToolUseId(round, k) == <<"toolu", Digit[round + 1], Digit[k + 1]>>

\* Errors as the catch blocks see them: error.status and error.message.
RateLimitError == [status |-> 429, message |-> <<"rate_limit_error">>]
ProviderError == [status |-> 500, message |-> <<"api_error">>]
ProviderErrors == {RateLimitError, ProviderError}
ToolError == [status |-> 0, message |-> <<"tool failed">>]
AttachmentError == [status |-> 0, message |-> <<"ENOENT">>]
ConnectError == [status |-> 0, message |-> <<"spawn failed">>]
NoError == [status |-> 0, message |-> <<>>]

-----------------------------------------------------------------------------
(* Content blocks and turns *)

TextBlock(t) == [type |-> "text", id |-> <<>>, name |-> <<>>, text |-> t]
ThinkingBlock(t) == [type |-> "thinking", id |-> <<>>, name |-> <<>>, text |-> t]
ImageBlock == [type |-> "image", id |-> <<>>, name |-> <<>>, text |-> <<>>]
DocumentBlock == [type |-> "document", id |-> <<>>, name |-> <<>>, text |-> <<>>]
ToolUseBlock(i, n) == [type |-> "tool_use", id |-> i, name |-> n, text |-> <<>>]
\* a tool_result block that does not carry the tool_use id
ToolResultBlockWithoutId(i) ==
    [type |-> "tool_result", id |-> <<>>, name |-> <<>>, text |-> <<>>]

ToolResultBlock(i) == [type |-> "tool_result", id |-> i, name |-> <<>>, text |-> <<>>]

Turn(r, blocks) == [role |-> r, content |-> blocks]

\* messageHistory.push(turn) that puts the turn in front
PushFront(log, turn) == <<turn>> \o log

\* messageHistory.push(turn)
Push(log, turn) == Append(log, turn)

-----------------------------------------------------------------------------
(* Response Normalizer *)

IsError(output) == "error" \in DOMAIN output

\* response.model: the name the provider reports back, which for an alias is
\* the dated model it resolved to
ReportedModel(m) ==
    IF m = <<"claude-3-7-sonnet-", "latest">>
    THEN <<"claude-3-7-sonnet-", "20250219">>
    ELSE m

\* stats that record the model name of the provider's response
StatsModelReported(m) == ReportedModel(m)

\* stats: { model, ... }: the shorthand property is main's parameter `model`
StatsModel(m) == m

ChatCompletion(text, m, inTok, outTok) ==
    [output |-> text,
     stats |-> [model |-> m, inputTokens |-> inTok, outputTokens |-> outTok]]

\* JSON.stringify(error)
StringifyError(error) == <<"{\"status\":", Digit[(error.status % 10) + 1], "}">>

\* mapErrorToCompletion that always serializes the error object
mapErrorToCompletionDropsMessage(error, m) ==
    [output |-> <<>>, error |-> StringifyError(error), model |-> m, usage |-> Null]

\* error.message || JSON.stringify(error), wrapped as an ErrorCompletion
mapErrorToCompletion(error, m) ==
    [output |-> <<>>,
     error |-> IF error.message /= <<>> THEN error.message ELSE StringifyError(error),
     model |-> m,
     usage |-> Null]

\* CompletionOf with the output tokens left out of the sum
CompletionOfInputOnly(output) ==
    IF IsError(output)
    THEN [Content |-> Null, TokenUsage |-> Null, Error |-> Some(output.error)]
    ELSE [Content |-> Some(output.output),
          TokenUsage |-> Some(output.stats.inputTokens)]

\* The callback of outputs.map in mapToResponse
CompletionOf(output) ==
    IF IsError(output)
    THEN [Content |-> Null, TokenUsage |-> Null, Error |-> Some(output.error)]
    ELSE [Content |-> Some(output.output),
          TokenUsage |-> Some(output.stats.inputTokens + output.stats.outputTokens)]

mapToResponse(outs, m) ==
    [Completions |-> [i \in 1..Len(outs) |-> CompletionOf(outs[i])],
     ModelType |-> IF Len(outs) /= 0
                   THEN (IF IsError(outs[1]) THEN m ELSE outs[1].stats.model)
                   ELSE m]

\* The variant without error completions: outputs[0] is read unguarded, so an
\* empty list raises a TypeError, modelled as the value TypeError.
TypeError == [raised |-> "TypeError"]

mapToResponseBasic(outs) ==
    IF Len(outs) = 0
    THEN TypeError
    ELSE [Completions |->
              [i \in 1..Len(outs) |->
                  [Content |-> Some(outs[i].output),
                   TokenUsage |-> Some(outs[i].stats.inputTokens
                                        + outs[i].stats.outputTokens)]],
          ModelType |-> outs[1].stats.model]

-----------------------------------------------------------------------------
(* Tool Registry *)

\* serverName.replace(/_/g, '-')
NormalizeName(s) == [i \in 1..Len(s) |-> IF s[i] = "_" THEN "-" ELSE s[i]]

\* normalizedServerName + '_' + tool.name
QualifiedName(normalized, raw) == normalized \o <<"_">> \o raw

KeyIndex(cl, key) ==
    IF \E i \in 1..Len(cl) : cl[i].key = key
    THEN CHOOSE i \in 1..Len(cl) : cl[i].key = key
    ELSE 0

\* clients[key] = entry: an existing key keeps its place in the iteration order
PutClient(cl, entry) ==
    LET i == KeyIndex(cl, entry.key)
    IN  IF i = 0 THEN Append(cl, entry) ELSE [cl EXCEPT ![i] = entry]

RegistryEntry(serverName, conn) ==
    LET normalized == NormalizeName(serverName)
        raw == ListTools(serverName)
    IN  [key |-> normalized,
         conn |-> conn,
         tools |-> [i \in 1..Len(raw) |-> QualifiedName(normalized, raw[i])]]

RECURSIVE Flatten(_)
Flatten(ss) == IF ss = <<>> THEN <<>> ELSE Head(ss) \o Flatten(Tail(ss))

\* Object.values(mcpClients).flatMap(client => client.tools)
AllTools(cl) == Flatten([i \in 1..Len(cl) |-> cl[i].tools])

FirstUnderscore(s) ==
    IF \E i \in 1..Len(s) : s[i] = "_"
    THEN CHOOSE i \in 1..Len(s) : s[i] = "_" /\ \A j \in 1..(i - 1) : s[j] /= "_"
    ELSE 0

\* const [serverName, ...rest] = content.name.split('_')
SplitServerName(name) ==
    LET i == FirstUnderscore(name)
    IN  IF i = 0 THEN name ELSE SubSeq(name, 1, i - 1)

\* rest.join('_')
SplitToolName(name) ==
    LET i == FirstUnderscore(name)
    IN  IF i = 0 THEN <<>> ELSE SubSeq(name, i + 1, Len(name))

\* callTool up to its await: the connection it invokes (0: it throws
\* "Client for server ... not found") and the tool name it passes.
RouteTool(content, cl) ==
    LET i == KeyIndex(cl, SplitServerName(content.name))
    IN  [id |-> content.id,
         server |-> SplitServerName(content.name),
         conn |-> IF i = 0 THEN 0 ELSE cl[i].conn,
         tool |-> SplitToolName(content.name)]

\* RoutingError without the name of the server
RoutingErrorAnonymous(call) ==
    [status |-> 0, message |-> <<"Client not found">>]

\* new Error("Client for server " + serverName + " not found")
RoutingError(call) ==
    [status |-> 0,
     message |-> <<"Client for server ">> \o call.server \o <<" not found">>]

IsRouted(call) == call.conn /= 0


-----------------------------------------------------------------------------
(* Turn Executor: pure parts of processModelRequest *)

\* JSON.stringify(content, null, 2) of a tool_use block
StringifyContent(content) ==
    <<"{\"id\":">> \o content.id \o <<",\"name\":">> \o content.name \o <<"}">>

CallRendering(content) ==
    <<"\n\nCalling tool:\n\n", "json-fence-open">> \o StringifyContent(content) \o <<"json-fence-close", "\n\n">>

\* The value client.callTool resolves with.
ToolResult(call) == <<"result of ">> \o call.id

ResultRendering(toolResult) ==
    <<"\n\nTool calling result:\n\n", "json-fence-open">> \o toolResult \o <<"json-fence-close", "\n\n">>

\* assistantResponse after the for loop over response.content
RECURSIVE AssistantText(_)
AssistantText(content) ==
    IF content = <<>> THEN <<>>
    ELSE LET c == Head(content)
         IN  (IF c.type = "text" THEN c.text
              ELSE IF c.type = "tool_use" THEN CallRendering(c)
              ELSE <<>>) \o AssistantText(Tail(content))

\* thinkingContent after the for loop over response.content
RECURSIVE ThinkingText(_)
ThinkingText(content) ==
    IF content = <<>> THEN <<>>
    ELSE LET c == Head(content)
         IN  (IF c.type = "thinking" THEN c.text \o <<"\n">> ELSE <<>>)
             \o ThinkingText(Tail(content))

IsToolUse(c) == c.type = "tool_use"
ToolUses(content) == SelectSeq(content, IsToolUse)

\* thinkingContent ? thinkingContent + '\n' + assistantResponse : assistantResponse
FinalOutput(thinking, text) ==
    IF thinking /= <<>> THEN thinking \o <<"\n">> \o text ELSE text

\* The retry test with the budget compared by >= instead of >
RetryAllowedOnceMore(error, n) == error.status = RateLimitStatus /\ n >= 0

\* error.status === 429 && retries > 0
RetryAllowed(error, n) == error.status = RateLimitStatus /\ n > 0

-----------------------------------------------------------------------------
(* What the model provider may answer *)

CatalogNames(cl) == {AllTools(cl)[i] : i \in 1..Len(AllTools(cl))}

\* Tool names the provider may ask for: the advertised ones, or one that no
\* provider owns.
RequestableTools(cl) == CatalogNames(cl) \cup {UnknownTool}

ToolUseLists(cl, round) ==
    {<<ToolUseBlock(ToolUseId(round, 1), n)>> : n \in RequestableTools(cl)}
    \cup {<<ToolUseBlock(ToolUseId(round, 1), n1), ToolUseBlock(ToolUseId(round, 2), n2)>> :
             n1 \in RequestableTools(cl), n2 \in RequestableTools(cl)}

TextContents ==
    { <<TextBlock(<<"a cat">>)>>,
      <<ThinkingBlock(<<"reasoning...">>), TextBlock(<<"a cat">>)>> }

ToolContents(cl, round) ==
    {<<TextBlock(<<"let me check">>)>> \o uses : uses \in ToolUseLists(cl, round)}

ProviderResponse(content, history) ==
    [content |-> content,
     usage |-> [input_tokens |-> Len(history), output_tokens |-> Len(content)]]


-----------------------------------------------------------------------------
(* Provider requests.  A JavaScript object is a function on its keys; a     *)
(* numeric property value n is [number |-> n].                              *)

Num(n) == [number |-> n]

\* { ...base, ...over }: a key of over replaces the same key of base
Spread(base, over) ==
    [k \in DOMAIN base \cup DOMAIN over |->
        IF k \in DOMAIN over THEN over[k] ELSE base[k]]

\* const { k1, k2, ...rest } = obj
Omit(obj, keys) == [k \in DOMAIN obj \ keys |-> obj[k]]

Has(obj, k) == k \in DOMAIN obj

MaxTokens == 4096
ConfigSystemPrompt == <<"You are a helpful assistant.">>

\* What the host passes when the user keeps the configured values.
ConfigProperties ==
    [temperature |-> Num(1), max_tokens |-> Num(8192), thinking |-> Num(16000),
     prompt |-> ConfigSystemPrompt]

\* prompt || config.properties.find(prop => prop.id === 'prompt')?.value
SystemPrompt(props) ==
    IF Has(props, "prompt") /\ props.prompt /= <<>>
    THEN props.prompt
    ELSE ConfigSystemPrompt

StartsWith(s, prefix) == Len(s) >= Len(prefix) /\ SubSeq(s, 1, Len(prefix)) = prefix
Includes(s, part) == \E i \in 1..Len(s) : s[i] = part

\* model.startsWith('claude-3-7-sonnet-')
SupportsThinking(m) == StartsWith(m, <<"claude-3-7-sonnet-">>)

\* The test of the second tool-enabled variant
SupportsThinkingWide(m) ==
    \/ StartsWith(m, <<"claude-3-7-sonnet-">>)
    \/ Includes(m, "claude-3-5-sonnet-20241022")
    \/ Includes(m, "claude-3-5-haiku-20241022")

\* the truthiness of the destructured `thinking`
ThinkingRequested(props) == Has(props, "thinking") /\ props.thinking.number /= 0

\* { type: 'enabled', budget_tokens: Number(thinking) }
ThinkingDirective(props) ==
    [type |-> "enabled", budget_tokens |-> props.thinking.number]

\* if (supportsThinking && thinking) apiParams.thinking = ...
WithThinking(apiParams, supports, props) ==
    IF supports /\ ThinkingRequested(props)
    THEN Spread(apiParams, [thinking |-> ThinkingDirective(props)])
    ELSE apiParams

\* apiParams of the loop-based connector
LoopRequest(m, props, history) ==
    WithThinking(
        Spread([model |-> m, system |-> SystemPrompt(props),
                max_tokens |-> Num(MaxTokens), messages |-> history],
               Omit(props, {"prompt", "thinking"})),
        SupportsThinking(m), props)

\* apiParams of the tool-enabled connector
ToolParams(m, props, tools, supports) ==
    WithThinking(
        Spread([model |-> m, system |-> SystemPrompt(props),
                max_tokens |-> Num(MaxTokens), tools |-> tools],
               Omit(props, {"prompt", "thinking", "tools"})),
        supports, props)

\* { ...apiParams, messages: messageHistory } in processModelRequest
ToolRequest(m, props, tools, history) ==
    Spread(ToolParams(m, props, tools, SupportsThinking(m)), [messages |-> history])

\* The same in the second tool-enabled variant
ToolRequestWide(m, props, tools, history) ==
    Spread(ToolParams(m, props, tools, SupportsThinkingWide(m)),
           [messages |-> history])

\* The request of the connectors that spread `properties` unfiltered
BasicRequest(m, props, history) ==
    Spread([model |-> m, system |-> ConfigSystemPrompt,
            max_tokens |-> Num(MaxTokens), messages |-> history],
           props)

\* The request of the image connector: only `prompt` is taken out
ImageRequest(m, props, history) ==
    Spread([model |-> m, system |-> SystemPrompt(props),
            max_tokens |-> Num(MaxTokens), messages |-> history],
           Omit(props, {"prompt"}))

-----------------------------------------------------------------------------
(* Attachment Resolver: extractUrls *)

UpperCase == <<"A","B","C","D","E","F","G","H","I","J","K","L","M",
               "N","O","P","Q","R","S","T","U","V","W","X","Y","Z">>
LowerCase == <<"a","b","c","d","e","f","g","h","i","j","k","l","m",
               "n","o","p","q","r","s","t","u","v","w","x","y","z">>

\* String.prototype.toLowerCase, one character
LowerChar(c) ==
    IF \E i \in 1..Len(UpperCase) : UpperCase[i] = c
    THEN LowerCase[CHOOSE i \in 1..Len(UpperCase) : UpperCase[i] = c]
    ELSE c

\* a toLowerCase that leaves the string as it is
toLowerCaseKeepingCase(s) == s

toLowerCase(s) == [i \in 1..Len(s) |-> LowerChar(s[i])]

IsQuote(c) == c \in {"'", "\""}

\* url.replace(/^['"]|['"]$/g, ''): a leading and a trailing quote are removed
StripQuotes(url) ==
    LET front == IF url /= <<>> /\ IsQuote(Head(url)) THEN Tail(url) ELSE url
    IN  IF front /= <<>> /\ IsQuote(Last(front))
        THEN SubSeq(front, 1, Len(front) - 1)
        ELSE front

\* url.lastIndexOf('.'), 1-based; 0 stands for -1
LastIndexOfDot(url) ==
    IF \E i \in 1..Len(url) : url[i] = "."
    THEN CHOOSE i \in 1..Len(url) :
             /\ url[i] = "."
             /\ \A j \in (i + 1)..Len(url) : url[j] /= "."
    ELSE 0

\* url.slice(extensionIndex)
SliceFrom(url, i) == SubSeq(url, i, Len(url))

imageExtensions ==
    { <<".","p","n","g">>, <<".","j","p","e","g">>, <<".","j","p","g">>,
      <<".","w","e","b","p">>, <<".","g","i","f">> }

pdfExtension == <<".","p","d","f">>

NoUrls == [imageUrls |-> <<>>, pdfUrls |-> <<>>]

\* one iteration of `for (let url of urls)`
ClassifyInto(res, matched) ==
    LET url == StripQuotes(matched)
        extensionIndex == LastIndexOfDot(url)
        extension == toLowerCase(SliceFrom(url, extensionIndex))
    IN  IF extensionIndex = 0 THEN res
        ELSE IF extension \in imageExtensions
             THEN [res EXCEPT !.imageUrls = Append(@, url)]
        ELSE IF extension = pdfExtension
             THEN [res EXCEPT !.pdfUrls = Append(@, url)]
        ELSE res

-----------------------------------------------------------------------------
(* Variable groups *)

inputs == << model, prompts, mcpServers, properties >>
exchange == << request, responseContent, rejected >>
extraction == << urls, extracted >>
registry == << clients, connected, opened >>
roundLocals == << launched, assistantResponse, thinkingContent, usage >>
roundHistory == << roundCalls, roundRateFails, lenAtRound >>

NoFailure == [src |-> "none", error |-> NoError]

\* State shared by every connector variant right after construction.
InitCommon ==
    /\ index = 0
    /\ messageHistory = <<>>
    /\ retries = DefaultRetries
    /\ clients = <<>>
    /\ connected = 0
    /\ opened = {}
    /\ closing = 0
    /\ launched = <<>>
    /\ pending = {}
    /\ assistantResponse = <<>>
    /\ thinkingContent = <<>>
    /\ usage = [input_tokens |-> 0, output_tokens |-> 0]
    /\ result = "none"
    /\ response = Null
    /\ rounds = 0
    /\ calls = 0
    /\ roundCalls = 0
    /\ roundRateFails = 0
    /\ lenAtRound = 0
    /\ recorded = FALSE
    /\ failure = NoFailure
    /\ invoked = <<>>
    /\ request = Null
    /\ responseContent = <<>>
    /\ rejected = 0
    /\ extracted = NoUrls

-----------------------------------------------------------------------------
(* The tool-enabled connector: main *)

Init ==
    /\ model \in Models
    /\ properties = ConfigProperties
    /\ prompts \in SeqsUpTo(PromptSamples, MaxPrompts)
    /\ mcpServers \in ServerConfigs
    /\ closed = [c \in 1..Len(mcpServers) |-> 0]
    /\ pc = IF mcpServers = <<>> THEN "loop" ELSE "init"
    /\ outputs = <<>>
    /\ urls = <<>>
    /\ InitCommon

\* The finally block of main is entered; with no client it completes at once.
EnterFinally ==
    /\ closing' = 0
    /\ pc' = IF Len(clients) = 0 THEN "done" ELSE "finally"

\* processModelRequest returns outs; main returns mapToResponse(outputs, model).
ReturnToMain(outs) ==
    /\ response' = Some(mapToResponse(outs, model))
    /\ result' = "response"
    /\ EnterFinally

\* initializeMCPClients, one iteration: connect and listTools succeed.
ConnectServer ==
    /\ pc = "init"
    /\ connected < Len(mcpServers)
    /\ LET c == connected + 1
       IN  /\ opened' = opened \cup {c}
           /\ clients' = PutClient(clients, RegistryEntry(mcpServers[c], c))
           /\ connected' = c
           /\ pc' = IF c = Len(mcpServers) THEN "loop" ELSE "init"
    /\ UNCHANGED << inputs, extraction, exchange, index, messageHistory, outputs, retries, closed,
                    closing, pending, roundLocals, result, response, rounds,
                    calls, roundHistory, recorded, failure, invoked >>

\* initializeMCPClients, one iteration: client.connect rejects.  The call is
\* outside main's try, so main rejects without running its finally block.
ConnectFails ==
    /\ pc = "init"
    /\ connected < Len(mcpServers)
    /\ pc' = "done"
    /\ result' = "raised"
    /\ failure' = [src |-> "init", error |-> ConnectError]
    /\ UNCHANGED << inputs, extraction, exchange, index, messageHistory, outputs, retries, registry,
                    closed, closing, pending, roundLocals, response, rounds,
                    calls, roundHistory, recorded, invoked >>

\* initializeMCPClients, one iteration: connect succeeds, listTools rejects.
ListToolsFails ==
    /\ pc = "init"
    /\ connected < Len(mcpServers)
    /\ opened' = opened \cup {connected + 1}
    /\ pc' = "done"
    /\ result' = "raised"
    /\ failure' = [src |-> "init", error |-> ConnectError]
    /\ UNCHANGED << inputs, extraction, exchange, index, messageHistory, outputs, retries, clients,
                    connected, closed, closing, pending, roundLocals, response,
                    rounds, calls, roundHistory, recorded, invoked >>

\* The user turn main builds for a prompt whose attachments were all read.
UserTurn(prompt) ==
    Turn("user",
         <<TextBlock(prompt.text)>>
         \o [i \in 1..prompt.images |-> ImageBlock]
         \o [i \in 1..prompt.pdfs |-> DocumentBlock])

\* for loop of main: no prompt left; the function falls through to finally
\* and returns undefined.
MainNoPrompt ==
    /\ pc = "loop"
    /\ index >= Len(prompts)
    /\ result' = "undefined"
    /\ EnterFinally
    /\ UNCHANGED << inputs, extraction, exchange, index, messageHistory, outputs, retries, registry,
                    closed, pending, roundLocals, response, rounds, calls,
                    roundHistory, recorded, failure, invoked >>

\* for loop of main, one iteration up to the call of processModelRequest.
MainPrompt ==
    /\ pc = "loop"
    /\ index < Len(prompts)
    /\ messageHistory' = Push(messageHistory, UserTurn(prompts[index + 1]))
    /\ outputs' = <<>>
    /\ retries' = DefaultRetries
    /\ pc' = "request"
    /\ UNCHANGED << inputs, extraction, exchange, index, registry, closed, closing, pending,
                    roundLocals, result, response, rounds, calls, roundHistory,
                    recorded, failure, invoked >>

\* for loop of main: encodeImage / encodePDF throws (fs.readFileSync).
MainAttachmentFails ==
    /\ pc = "loop"
    /\ index < Len(prompts)
    /\ prompts[index + 1].images + prompts[index + 1].pdfs > 0
    /\ result' = "raised"
    /\ failure' = [src |-> "attachment", error |-> AttachmentError]
    /\ EnterFinally
    /\ UNCHANGED << inputs, extraction, exchange, index, messageHistory, outputs, retries, registry,
                    closed, pending, roundLocals, response, rounds, calls,
                    roundHistory, recorded, invoked >>

\* finally block of main, one iteration: await client.client.close().
CloseClient ==
    /\ pc = "finally"
    /\ closing < Len(clients)
    /\ LET c == clients[closing + 1].conn
       IN  closed' = [closed EXCEPT ![c] = @ + 1]
    /\ closing' = closing + 1
    /\ pc' = IF closing + 1 = Len(clients) THEN "done" ELSE "finally"
    /\ UNCHANGED << inputs, extraction, exchange, index, messageHistory, outputs, retries, registry,
                    pending, roundLocals, result, response, rounds, calls,
                    roundHistory, recorded, failure, invoked >>


-----------------------------------------------------------------------------
(* The tool-enabled connector: processModelRequest *)

\* anthropic.messages.create({...apiParams, messages: messageHistory}) is called.
ProcessIssue ==
    /\ pc = "request"
    /\ pc' = "awaitModel"
    /\ calls' = calls + 1
    /\ roundCalls' = IF recorded THEN 1 ELSE roundCalls + 1
    /\ roundRateFails' = IF recorded THEN 0 ELSE roundRateFails
    /\ lenAtRound' = IF recorded \/ roundCalls = 0
                     THEN Len(messageHistory) ELSE lenAtRound
    /\ recorded' = FALSE
    /\ request' = Some(ToolRequest(model, properties, AllTools(clients),
                                 messageHistory))
    /\ UNCHANGED << inputs, extraction, responseContent, rejected, index, messageHistory, outputs, retries, registry,
                    closed, closing, pending, roundLocals, result, response,
                    rounds, failure, invoked >>

\* The catch block recording an error completion also when it retries
HandleErrorRecordingRetry(error, src) ==
    IF RetryAllowed(error, retries)
    THEN /\ retries' = retries - 1
         /\ pc' = "request"
         /\ outputs' = Append(outputs, mapErrorToCompletion(error, model))
         /\ UNCHANGED << result, response, closing, recorded, failure >>
    ELSE /\ outputs' = Append(outputs, mapErrorToCompletion(error, model))
         /\ retries' = retries
         /\ recorded' = TRUE
         /\ failure' = [src |-> src, error |-> error]
         /\ ReturnToMain(outputs')

\* The catch block of processModelRequest.
HandleError(error, src) ==
    IF RetryAllowed(error, retries)
    THEN /\ retries' = retries - 1
         /\ pc' = "request"
         /\ UNCHANGED << outputs, result, response, closing, recorded, failure >>
    ELSE /\ outputs' = Append(outputs, mapErrorToCompletion(error, model))
         /\ retries' = retries
         /\ recorded' = TRUE
         /\ failure' = [src |-> src, error |-> error]
         /\ ReturnToMain(outputs')

\* The provider call rejects.
ProviderFails ==
    /\ pc = "awaitModel"
    /\ \E error \in ProviderErrors :
          /\ roundRateFails' = IF error.status = RateLimitStatus
                               THEN roundRateFails + 1 ELSE roundRateFails
          /\ HandleError(error, "provider")
    /\ UNCHANGED << inputs, extraction, exchange, index, messageHistory, registry, closed, pending,
                    roundLocals, rounds, calls, roundCalls, lenAtRound, invoked >>

\* a for loop that calls client.callTool for the first tool_use block only
DispatchedFirstOnly(started) ==
    LET routed == SelectSeq(started, IsRouted)
    IN  IF routed = <<>> THEN <<>> ELSE <<Head(routed)>>

\* The client.callTool invocations made while the for loop over
\* response.content runs: each tool promise runs synchronously up to its
\* first await, which is the client.callTool call of callTool.
Dispatched(started) == SelectSeq(started, IsRouted)

\* The provider call resolves: the for loop over response.content runs to its
\* end, pushing one assistant turn per tool_use block and starting every tool
\* call, up to await Promise.all(toolUsePromises).
ProviderSucceeds ==
    /\ pc = "awaitModel"
    /\ \E content \in TextContents
                      \cup (IF rounds < MaxRounds
                            THEN ToolContents(clients, rounds + 1) ELSE {}) :
          LET resp == ProviderResponse(content, messageHistory)
              uses == ToolUses(resp.content)
              started == [i \in 1..Len(uses) |-> RouteTool(uses[i], clients)]
          IN  /\ assistantResponse' = AssistantText(resp.content)
              /\ thinkingContent' = ThinkingText(resp.content)
              /\ usage' = resp.usage
              /\ responseContent' = resp.content
              /\ messageHistory' = messageHistory
                     \o [i \in 1..Len(uses) |-> Turn("assistant", <<uses[i]>>)]
              /\ launched' = [i \in 1..Len(uses) |-> uses[i].id]
              /\ pending' = {started[i] : i \in 1..Len(started)}
              /\ invoked' = invoked \o Dispatched(started)
              /\ rounds' = IF Len(uses) > 0 THEN rounds + 1 ELSE rounds
    /\ pc' = "tools"
    /\ UNCHANGED << inputs, extraction, request, rejected, index, outputs, retries, registry, closed, closing,
                    result, response, calls, roundHistory, recorded, failure >>

\* The started tool calls whose callTool found no client.  Their promises
\* reject in the microtasks that follow the for loop, before any I/O completes.
Unrouted == {q \in pending : ~IsRouted(q)}

Position(ids, id) == CHOOSE i \in 1..Len(ids) : ids[i] = id

FirstUnrouted ==
    CHOOSE q \in Unrouted :
        \A r \in Unrouted : Position(launched, q.id) <= Position(launched, r.id)

\* Every callTool that found no client rejects; the first of these rejections
\* rejects Promise.all and runs the catch block, while the calls that were
\* routed to a connection are still in flight.
RoutingRejects ==
    /\ pc = "tools"
    /\ Unrouted /= {}
    /\ pending' = pending \ Unrouted
    /\ HandleError(RoutingError(FirstUnrouted), "routing")
    /\ UNCHANGED << inputs, extraction, exchange, index, messageHistory, registry, closed, roundLocals,
                    rounds, calls, roundHistory, invoked >>

\* a tool promise that appends to the assistantResponse it read when it started
ToolResolvesLosingUpdate ==
    /\ Unrouted = {}
    /\ \E p \in pending :
          /\ closed[p.conn] = 0
          /\ assistantResponse' = AssistantText(responseContent)
                                     \o ResultRendering(ToolResult(p))
          /\ messageHistory' = Push(messageHistory,
                                      Turn("user", <<ToolResultBlock(p.id)>>))
          /\ pending' = pending \ {p}
    /\ UNCHANGED << inputs, extraction, exchange, pc, index, outputs, retries, registry, closed,
                    closing, launched, thinkingContent, usage, result, response,
                    rounds, calls, roundHistory, recorded, failure, invoked >>

\* client.callTool resolves: the rest of the tool promise runs.  A call on a
\* connection that was closed meanwhile can only reject.
ToolResolves ==
    /\ Unrouted = {}
    /\ \E p \in pending :
          /\ closed[p.conn] = 0
          /\ assistantResponse' = assistantResponse \o ResultRendering(ToolResult(p))
          /\ messageHistory' = Push(messageHistory,
                                      Turn("user", <<ToolResultBlock(p.id)>>))
          /\ pending' = pending \ {p}
    /\ UNCHANGED << inputs, extraction, exchange, pc, index, outputs, retries, registry, closed,
                    closing, launched, thinkingContent, usage, result, response,
                    rounds, calls, roundHistory, recorded, failure, invoked >>

\* a tool promise that catches the rejection of client.callTool itself
ToolRejectsSwallowed ==
    /\ Unrouted = {}
    /\ \E p \in pending : pending' = pending \ {p}
    /\ UNCHANGED << pc, outputs, retries, result, response, closing, recorded,
                    failure >>
    /\ UNCHANGED << inputs, extraction, exchange, index, messageHistory, registry, closed, roundLocals,
                    rounds, calls, roundHistory, invoked >>

\* client.callTool rejects.  The first rejection of a round rejects
\* Promise.all and runs the catch block; later ones find it settled.
ToolRejects ==
    /\ Unrouted = {}
    /\ \E p \in pending :
          /\ pending' = pending \ {p}
          /\ IF pc = "tools"
             THEN HandleError(ToolError, "tool")
             ELSE UNCHANGED << pc, outputs, retries, result, response, closing,
                               recorded, failure >>
    /\ UNCHANGED << inputs, extraction, exchange, index, messageHistory, registry, closed, roundLocals,
                    rounds, calls, roundHistory, invoked >>

\* Join that returns to main whether or not the round started a tool call
JoinNeverRecursing ==
    /\ pc = "tools"
    /\ pending = {}
    /\ outputs' = Append(outputs,
                         ChatCompletion(FinalOutput(thinkingContent, assistantResponse),
                                        StatsModel(model), usage.input_tokens, usage.output_tokens))
    /\ recorded' = TRUE
    /\ retries' = retries
    /\ ReturnToMain(outputs')
    /\ UNCHANGED << inputs, extraction, exchange, index, messageHistory, registry, closed,
                    pending, roundLocals, rounds, calls, roundHistory, failure,
                    invoked >>

\* Join whose recursive call passes the remaining retry budget on
JoinKeepingBudget ==
    /\ pc = "tools"
    /\ pending = {}
    /\ outputs' = Append(outputs,
                         ChatCompletion(FinalOutput(thinkingContent, assistantResponse),
                                        StatsModel(model), usage.input_tokens, usage.output_tokens))
    /\ recorded' = TRUE
    /\ retries' = retries
    /\ IF Len(launched) > 0
       THEN /\ pc' = "request"
            /\ UNCHANGED << result, response, closing >>
       ELSE ReturnToMain(outputs')
    /\ UNCHANGED << inputs, extraction, exchange, index, messageHistory, registry, closed, pending,
                    roundLocals, rounds, calls, roundHistory, failure, invoked >>

\* Promise.all resolves: the Outcome of the round is recorded, and the
\* function recurses when the round started a tool call.
Join ==
    /\ pc = "tools"
    /\ pending = {}
    /\ outputs' = Append(outputs,
                         ChatCompletion(FinalOutput(thinkingContent, assistantResponse),
                                        StatsModel(model), usage.input_tokens, usage.output_tokens))
    /\ recorded' = TRUE
    /\ IF Len(launched) > 0
       THEN /\ pc' = "request"
            /\ retries' = DefaultRetries
            /\ UNCHANGED << result, response, closing >>
       ELSE /\ retries' = retries
            /\ ReturnToMain(outputs')
    /\ UNCHANGED << inputs, extraction, exchange, index, messageHistory, registry, closed, pending,
                    roundLocals, rounds, calls, roundHistory, failure, invoked >>

Next ==
    \/ ConnectServer
    \/ ConnectFails
    \/ ListToolsFails
    \/ MainNoPrompt
    \/ MainPrompt
    \/ MainAttachmentFails
    \/ CloseClient
    \/ ProcessIssue
    \/ ProviderFails
    \/ ProviderSucceeds
    \/ RoutingRejects
    \/ ToolResolves
    \/ ToolRejects
    \/ Join

Spec == Init /\ [][Next]_vars


-----------------------------------------------------------------------------
(* The tool-enabled connector under the event loop's scheduling: a ready    *)
(* continuation is eventually run, and a provider or tool call that was     *)
(* issued eventually settles.                                               *)

RecursionInit ==
    /\ model = <<"claude-3-7-sonnet-", "latest">>
    /\ properties = ConfigProperties
    /\ prompts \in {<<>>, <<PlainPrompt>>, <<ImagePrompt>>}
    /\ mcpServers \in {<<>>, << <<"f","s">> >>}
    /\ closed = [c \in 1..Len(mcpServers) |-> 0]
    /\ pc = IF mcpServers = <<>> THEN "loop" ELSE "init"
    /\ outputs = <<>>
    /\ urls = <<>>
    /\ InitCommon

SpecRecursion == RecursionInit /\ [][Next]_vars /\ WF_vars(Next)

-----------------------------------------------------------------------------
(* The loop-based connector: main with the do/while retry loop *)

\* response.content.map(text or '').filter(Boolean).join('\n')
RECURSIVE JoinLines(_)
JoinLines(texts) ==
    IF texts = <<>> THEN <<>>
    ELSE IF Len(texts) = 1 THEN Head(texts)
    ELSE Head(texts) \o <<"\n">> \o JoinLines(Tail(texts))

IsVisibleText(c) == c.type /= "thinking" /\ c.text /= <<>>

\* an assistantResponse that keeps the text of the thinking blocks
LoopAssistantTextWithThinking(content) ==
    JoinLines([i \in 1..Len(content) |-> content[i].text])

LoopAssistantText(content) ==
    LET visible == SelectSeq(content, IsVisibleText)
    IN  JoinLines([i \in 1..Len(visible) |-> visible[i].text])

\* } while (retries > 0);
LoopContinues(n) == n > 0

LoopInit ==
    /\ model \in Models
    /\ properties = ConfigProperties
    /\ prompts \in SeqsUpTo(PromptSamples, MaxPrompts)
    /\ mcpServers = <<>>
    /\ closed = <<>>
    /\ pc = "loop"
    /\ outputs = <<>>
    /\ urls = <<>>
    /\ InitCommon

toolState == << registry, closed, closing, launched, pending, rounds, invoked >>

\* for loop of main: no prompt left; return mapToResponse(outputs, model).
LoopReturn ==
    /\ pc = "loop"
    /\ index >= Len(prompts)
    /\ response' = Some(mapToResponse(outputs, model))
    /\ result' = "response"
    /\ pc' = "done"
    /\ UNCHANGED << inputs, extraction, exchange, index, messageHistory, outputs, retries, toolState,
                    assistantResponse, thinkingContent, usage, calls,
                    roundHistory, recorded, failure >>

\* for loop of main, one iteration up to the do/while loop.
LoopPrompt ==
    /\ pc = "loop"
    /\ index < Len(prompts)
    /\ messageHistory' = Push(messageHistory, UserTurn(prompts[index + 1]))
    /\ retries' = DefaultRetries
    /\ roundCalls' = 0
    /\ roundRateFails' = 0
    /\ lenAtRound' = Len(messageHistory)
    /\ recorded' = FALSE
    /\ pc' = "request"
    /\ UNCHANGED << inputs, extraction, exchange, index, outputs, toolState, assistantResponse,
                    thinkingContent, usage, result, response, calls, failure >>

\* for loop of main: encodeImage / encodePDF throws; the outer catch rethrows.
LoopAttachmentFails ==
    /\ pc = "loop"
    /\ index < Len(prompts)
    /\ prompts[index + 1].images + prompts[index + 1].pdfs > 0
    /\ result' = "raised"
    /\ failure' = [src |-> "attachment", error |-> AttachmentError]
    /\ pc' = "done"
    /\ UNCHANGED << inputs, extraction, exchange, index, messageHistory, outputs, retries, toolState,
                    assistantResponse, thinkingContent, usage, response, calls,
                    roundHistory, recorded >>

\* do { try { anthropic.messages.create(apiParams) is called.
LoopIssue ==
    /\ pc = "request"
    /\ pc' = "awaitModel"
    /\ calls' = calls + 1
    /\ roundCalls' = roundCalls + 1
    /\ request' = Some(LoopRequest(model, properties, messageHistory))
    /\ UNCHANGED << inputs, extraction, responseContent, rejected, index, messageHistory, outputs, retries, toolState,
                    assistantResponse, thinkingContent, usage, result, response,
                    roundRateFails, lenAtRound, recorded, failure >>

\* LoopSucceeds without the break: the do/while loop goes round again
LoopSucceedsWithoutBreak ==
    /\ pc = "awaitModel"
    /\ \E content \in TextContents :
          LET resp == ProviderResponse(content, messageHistory)
              text == LoopAssistantText(resp.content)
              thinking == ThinkingText(resp.content)
          IN  /\ assistantResponse' = text
              /\ thinkingContent' = thinking
              /\ usage' = resp.usage
              /\ responseContent' = resp.content
              /\ messageHistory' = Push(messageHistory,
                                          Turn("assistant", <<TextBlock(text)>>))
              /\ outputs' = Append(outputs,
                                   ChatCompletion(FinalOutput(thinking, text), StatsModel(model),
                                                  resp.usage.input_tokens,
                                                  resp.usage.output_tokens))
    /\ recorded' = TRUE
    /\ pc' = IF LoopContinues(retries) THEN "request" ELSE "loop"
    /\ index' = IF LoopContinues(retries) THEN index ELSE index + 1
    /\ UNCHANGED << inputs, extraction, request, rejected, retries, toolState, result,
                    response, calls, roundHistory, failure >>

\* The provider call resolves: the assistant turn and the Outcome are pushed,
\* break leaves the do/while loop and the for loop goes to the next prompt.
LoopSucceeds ==
    /\ pc = "awaitModel"
    /\ \E content \in TextContents :
          LET resp == ProviderResponse(content, messageHistory)
              text == LoopAssistantText(resp.content)
              thinking == ThinkingText(resp.content)
          IN  /\ assistantResponse' = text
              /\ thinkingContent' = thinking
              /\ usage' = resp.usage
              /\ responseContent' = resp.content
              /\ messageHistory' = Push(messageHistory,
                                          Turn("assistant", <<TextBlock(text)>>))
              /\ outputs' = Append(outputs,
                                   ChatCompletion(FinalOutput(thinking, text), StatsModel(model),
                                                  resp.usage.input_tokens,
                                                  resp.usage.output_tokens))
    /\ recorded' = TRUE
    /\ index' = index + 1
    /\ pc' = "loop"
    /\ UNCHANGED << inputs, extraction, request, rejected, retries, toolState, result, response, calls,
                    roundHistory, failure >>

\* The provider call rejects: the catch block inside the do/while loop, then
\* the loop condition.
LoopFails ==
    /\ pc = "awaitModel"
    /\ rejected' = rejected + 1
    /\ \E error \in ProviderErrors :
          /\ roundRateFails' = IF error.status = RateLimitStatus
                               THEN roundRateFails + 1 ELSE roundRateFails
          /\ IF RetryAllowed(error, retries)
             THEN /\ retries' = retries - 1
                  /\ IF LoopContinues(retries')
                     THEN pc' = "request" /\ index' = index
                     ELSE pc' = "loop" /\ index' = index + 1
                  /\ UNCHANGED << outputs, result, failure, recorded >>
             ELSE /\ outputs' = Append(outputs, mapErrorToCompletion(error, model))
                  /\ recorded' = TRUE
                  /\ failure' = [src |-> "provider", error |-> error]
                  /\ result' = "raised"
                  /\ pc' = "done"
                  /\ UNCHANGED << retries, index >>
    /\ UNCHANGED << inputs, extraction, request, responseContent, messageHistory, toolState, assistantResponse,
                    thinkingContent, usage, response, calls, roundCalls,
                    lenAtRound >>

LoopNext ==
    \/ LoopReturn
    \/ LoopPrompt
    \/ LoopAttachmentFails
    \/ LoopIssue
    \/ LoopSucceeds
    \/ LoopFails

SpecLoop == LoopInit /\ [][LoopNext]_vars

-----------------------------------------------------------------------------
(* The response normalizer on its own *)

OutcomeSamples ==
    {ChatCompletion(<<"a cat">>, m, 3, 5) : m \in Models}
    \cup {ChatCompletion(<<"reasoning...", "\n", "\n", "a cat">>, m, 7, 0) : m \in Models}
    \cup {mapErrorToCompletion(e, m) : e \in ProviderErrors, m \in Models}

MapInit ==
    /\ model \in Models
    /\ properties = ConfigProperties
    /\ prompts = <<>>
    /\ mcpServers = <<>>
    /\ closed = <<>>
    /\ pc = "map"
    /\ outputs \in SeqsUpTo(OutcomeSamples, MaxOut)
    /\ urls = <<>>
    /\ InitCommon

\* mapToResponse(outputs, model) of the variants that record error completions
MapNormalize ==
    /\ pc = "map"
    /\ response' = Some(mapToResponse(outputs, model))
    /\ result' = "response"
    /\ pc' = "done"
    /\ UNCHANGED << inputs, extraction, exchange, index, messageHistory, outputs, retries, toolState,
                    assistantResponse, thinkingContent, usage, calls,
                    roundHistory, recorded, failure >>

\* mapToResponse(outputs) of the variants whose outputs hold ChatCompletions only
MapNormalizeBasic ==
    /\ pc = "map"
    /\ \A i \in 1..Len(outputs) : ~IsError(outputs[i])
    /\ LET r == mapToResponseBasic(outputs)
       IN  IF r = TypeError
           THEN response' = Null /\ result' = "raised"
           ELSE response' = Some(r) /\ result' = "response"
    /\ pc' = "doneBasic"
    /\ UNCHANGED << inputs, extraction, exchange, index, messageHistory, outputs, retries, toolState,
                    assistantResponse, thinkingContent, usage, calls,
                    roundHistory, recorded, failure >>

MapNext ==
    \/ MapNormalize
    \/ MapNormalizeBasic

SpecMap == MapInit /\ [][MapNext]_vars


-----------------------------------------------------------------------------
(* extractUrls as a pure function of the references urlRegex matched *)

MaxUrls == 2

Quoted(q, path) == <<q>> \o path \o <<q>>

ExtensionSamples ==
    { <<>>, <<".">>,
      <<".","p","n","g">>, <<".","P","N","G">>, <<".","j","p","e","g">>,
      <<".","J","p","E","g">>, <<".","j","p","g">>, <<".","w","e","b","p">>,
      <<".","G","I","F">>, <<".","p","d","f">>, <<".","P","d","F">>,
      <<".","t","x","t">>, <<".","T","X","T">> }

\* matches of urlRegex: double-quoted, single-quoted and absolute POSIX paths
ReferenceSamples ==
    {Quoted("\"", <<"p","h","o","t","o">> \o e) : e \in ExtensionSamples}
    \cup {Quoted("'", <<"n","o","t","e","s">> \o e) : e \in ExtensionSamples}
    \cup {<<"/","v",".","1","/","a">> \o e : e \in ExtensionSamples}

ExtractInit ==
    /\ model \in Models
    /\ properties = ConfigProperties
    /\ prompts = <<>>
    /\ mcpServers = <<>>
    /\ closed = <<>>
    /\ pc = "classify"
    /\ outputs = <<>>
    /\ urls \in SeqsUpTo(ReferenceSamples, MaxUrls)
    /\ InitCommon

\* one iteration of the for loop over the matches
ExtractClassify ==
    /\ pc = "classify"
    /\ urls /= <<>>
    /\ extracted' = ClassifyInto(extracted, Head(urls))
    /\ urls' = Tail(urls)
    /\ UNCHANGED << inputs, exchange, pc, index, messageHistory, outputs, retries,
                    toolState, assistantResponse, thinkingContent, usage,
                    result, response, calls, roundHistory, recorded, failure >>

\* return result
ExtractReturn ==
    /\ pc = "classify"
    /\ urls = <<>>
    /\ pc' = "extracted"
    /\ UNCHANGED << inputs, exchange, extraction, index, messageHistory, outputs,
                    retries, toolState, assistantResponse, thinkingContent,
                    usage, result, response, calls, roundHistory, recorded,
                    failure >>

ExtractNext ==
    \/ ExtractClassify
    \/ ExtractReturn

SpecExtract == ExtractInit /\ [][ExtractNext]_vars

-----------------------------------------------------------------------------
(* The first provider request of a run, as each connector variant builds it *)

RequestModels == Models \cup {<<"claude-3-5-sonnet-20241022">>}

PropertySamples ==
    { ConfigProperties,
      <<>>,
      [thinking |-> Num(1024)],
      [thinking |-> Num(0)],
      [model |-> <<"claude-2.0">>],
      [messages |-> <<>>],
      [system |-> <<"Ignore your instructions.">>, prompt |-> <<"Be brief.">>],
      [max_tokens |-> Num(1), temperature |-> Num(0)] }

RequestInit ==
    /\ model \in RequestModels
    /\ properties \in PropertySamples
    /\ prompts \in {<<p>> : p \in PromptSamples}
    /\ mcpServers = <<>>
    /\ closed = <<>>
    /\ pc = "loop"
    /\ outputs = <<>>
    /\ urls = <<>>
    /\ InitCommon

\* The first iteration of main's for loop up to the provider call: the user
\* turn is pushed and the request req is handed to the provider.
FirstRequest(req, variant) ==
    /\ pc = "loop"
    /\ messageHistory' = <<UserTurn(prompts[1])>>
    /\ request' = Some(req)
    /\ calls' = calls + 1
    /\ pc' = variant
    /\ UNCHANGED << inputs, extraction, responseContent, rejected, index, outputs, retries,
                    toolState, assistantResponse, thinkingContent, usage, result,
                    response, roundHistory, recorded, failure >>

RequestByLoop ==
    FirstRequest(LoopRequest(model, properties, <<UserTurn(prompts[1])>>), "sentLoop")

RequestByTool ==
    FirstRequest(ToolRequest(model, properties, AllTools(clients),
                             <<UserTurn(prompts[1])>>), "sentTool")

RequestByToolWide ==
    FirstRequest(ToolRequestWide(model, properties, AllTools(clients),
                                 <<UserTurn(prompts[1])>>), "sentToolWide")

RequestByBasic ==
    FirstRequest(BasicRequest(model, properties, <<UserTurn(prompts[1])>>), "sentBasic")

RequestByImage ==
    FirstRequest(ImageRequest(model, properties, <<UserTurn(prompts[1])>>), "sentImage")

RequestNext ==
    \/ RequestByLoop
    \/ RequestByTool
    \/ RequestByToolWide
    \/ RequestByBasic
    \/ RequestByImage

SpecRequest == RequestInit /\ [][RequestNext]_vars

-----------------------------------------------------------------------------
(* Properties *)

ErrorCount(outs) == Cardinality({i \in 1..Len(outs) : IsError(outs[i])})

HasBlock(turn, type, id) ==
    \E k \in 1..Len(turn.content) :
        turn.content[k].type = type /\ turn.content[k].id = id

HasToolResult(h, id) ==
    \E i \in 1..Len(h) : h[i].role = "user" /\ HasBlock(h[i], "tool_result", id)

RateLimitExhausted ==
    failure.src = "provider" /\ failure.error.status = RateLimitStatus

TerminalProviderError ==
    failure.src = "provider" /\ failure.error.status /= RateLimitStatus

\* C1: in processModelRequest, a round whose provider call succeeds after k
\* rate-limit failures made exactly k + 1 calls (3 calls after 2 failures) and
\* records a Success Outcome; a round whose every call is rate-limited makes
\* exactly 4 calls (3 retries), records exactly one Failure Outcome, and no
\* provider call follows it.
C1_RateLimitRetry ==
    /\ (recorded /\ ~IsError(Last(outputs))) =>
          /\ roundCalls = roundRateFails + 1
          /\ roundRateFails <= 3
          /\ (roundRateFails = 2 => roundCalls = 3)
    /\ RateLimitExhausted =>
          /\ recorded
          /\ roundCalls = 4
          /\ roundRateFails = 4
          /\ IsError(Last(outputs))
          /\ ErrorCount(outputs) = 1
          /\ pc \in {"finally", "done"}
    /\ failure.src /= "none" => pc \in {"finally", "done"}

\* C1 witness: in the second round every call was rate-limited; 4 calls were
\* made in that round and the Failure Outcome follows the first round's Success.
C1_Witness ==
    /\ RateLimitExhausted
    /\ roundCalls = 4
    /\ Len(outputs) = 2
    /\ pc = "done"

\* C2: in the loop-based connector every prompt whose processing has ended
\* left exactly one Outcome in outputs; a prompt whose calls are all
\* rate-limited ends with a Failure Outcome after 4 attempts.
C2_OneOutcomePerPrompt ==
    /\ pc = "loop" => Len(outputs) = index
    /\ (pc = "loop" /\ index > 0 /\ roundRateFails = roundCalls) =>
          /\ roundCalls = 4
          /\ IsError(Last(outputs))

\* C3: join barrier: the Outcome of a round is recorded only when no tool call
\* of the round is still in flight (and, for a Success Outcome, every tool
\* call has appended its ToolResult turn); no provider request is in flight
\* while a tool call is pending.
C3_JoinBarrier ==
    /\ recorded => pending = {}
    /\ (recorded /\ ~IsError(Last(outputs))) =>
          \A i \in 1..Len(launched) : HasToolResult(messageHistory, launched[i])
    /\ pc = "awaitModel" => pending = {}

\* ToolUse blocks appear only in assistant turns, each immediately followed
\* by a user turn holding the ToolResult of the same id.
ToolUsePaired(h) ==
    \A i \in 1..Len(h) :
        \A k \in 1..Len(h[i].content) :
            h[i].content[k].type = "tool_use" =>
                /\ h[i].role = "assistant"
                /\ i < Len(h)
                /\ h[i + 1].role = "user"
                /\ HasBlock(h[i + 1], "tool_result", h[i].content[k].id)

\* C4: whenever a provider request is issued, ToolUse blocks appear only in
\* assistant turns and each is immediately followed by the user turn holding
\* its ToolResult.
C4_ToolUseImmediatelyAnswered ==
    pc = "awaitModel" => ToolUsePaired(messageHistory)

\* C5: a tool-call round whose tool calls all succeed leaves the conversation
\* log exactly 2 turns longer than it was when the round started.
C5_TwoTurnsPerToolRound ==
    (recorded /\ ~IsError(Last(outputs)) /\ Len(launched) > 0) =>
        Len(messageHistory) = lenAtRound + 2

\* C6: when the run of the tool-enabled main has ended, every connection that
\* was opened has been closed.
C6_EveryConnectionClosed ==
    pc = "done" => \A c \in opened : closed[c] >= 1

\* C7: in the loop-based connector, when a prompt fails with a terminal
\* provider error the run returns a response: one completion per recorded
\* Outcome, the earlier ones holding content and token usage, the last one
\* holding content null and no token usage.
C7_FailureKeepsEarlierOutcomes ==
    (pc = "done" /\ TerminalProviderError) =>
        /\ result = "response"
        /\ response /= Null
        /\ Len(response[1].Completions) = Len(outputs)
        /\ Last(response[1].Completions).Content = Null
        /\ Last(response[1].Completions).TokenUsage = Null
        /\ \A i \in 1..(Len(outputs) - 1) :
              /\ response[1].Completions[i].Content = Some(outputs[i].output)
              /\ response[1].Completions[i].TokenUsage /= Null

\* C8: in processModelRequest a non-rate-limit provider error of any round is
\* appended as a Failure Outcome after the Success Outcomes of the earlier
\* rounds and is not raised: main completes with a response whose last
\* completion has content null and carries the error message unchanged.
C8_ProviderErrorBecomesFailureOutcome ==
    TerminalProviderError =>
        /\ result = "response"
        /\ Len(outputs) = rounds + 1
        /\ \A i \in 1..rounds : ~IsError(outputs[i])
        /\ IsError(Last(outputs))
        /\ Last(outputs).error = failure.error.message
        /\ response /= Null
        /\ Len(response[1].Completions) = Len(outputs)
        /\ \A i \in 1..rounds :
              response[1].Completions[i].Content = Some(outputs[i].output)
        /\ Last(response[1].Completions).Content = Null
        /\ Last(response[1].Completions).Error = Some(failure.error.message)

\* C8 witness: the run has ended after a terminal provider error in the
\* second round.
C8_Witness ==
    /\ TerminalProviderError
    /\ pc = "done"
    /\ rounds = 1
    /\ Len(outputs) = 2

\* C9: mapToResponse returns one completion per Outcome, in order: a Success
\* maps to its text and inputTokens + outputTokens, a Failure to content null
\* and no token usage.
C9_CompletionPerOutcome ==
    (pc \in {"done", "doneBasic"} /\ result = "response") =>
        /\ Len(response[1].Completions) = Len(outputs)
        /\ \A i \in 1..Len(outputs) :
              IF "error" \in DOMAIN outputs[i]
              THEN /\ response[1].Completions[i].Content = Null
                   /\ response[1].Completions[i].TokenUsage = Null
              ELSE /\ response[1].Completions[i].Content = <<outputs[i].output>>
                   /\ response[1].Completions[i].TokenUsage =
                          <<outputs[i].stats.inputTokens + outputs[i].stats.outputTokens>>

\* C9 witness: a mixed sequence Success, Failure, Success was normalized.
C9_Witness ==
    /\ pc = "done"
    /\ Len(outputs) = 3
    /\ ~IsError(outputs[1])
    /\ IsError(outputs[2])
    /\ ~IsError(outputs[3])
    /\ response[1].Completions[3].TokenUsage = <<8>>

\* C10: ModelType is the model of the first Outcome when it is a Success and
\* the requested model otherwise (first Outcome a Failure, or no Outcome);
\* mapToResponse does not fail on an empty Outcome list.
C10_ModelTypeAndEmptyList ==
    pc \in {"done", "doneBasic"} =>
        /\ result = "response"
        /\ response /= Null
        /\ response[1].ModelType =
              IF Len(outputs) > 0 /\ ~IsError(outputs[1])
              THEN outputs[1].stats.model
              ELSE model

IsPlain(prompt) == prompt.images + prompt.pdfs = 0

\* C11: in the loop-based connector, a run whose prompts hold no attachment
\* reference and whose provider calls are never rejected makes exactly one
\* provider call per prompt: while it runs, the calls made are the prompts
\* completed plus the one in flight, and the returned response has as many
\* completions as there are prompts, obtained with as many calls.
C11_OneCallPerPrompt ==
    /\ rejected = 0 =>
          calls = index + (IF pc \in {"awaitModel"} THEN 1 ELSE 0)
    /\ (pc = "done" /\ rejected = 0 /\ \A i \in 1..Len(prompts) : IsPlain(prompts[i])) =>
          /\ result = "response"
          /\ calls = Len(prompts)
          /\ Len(response[1].Completions) = Len(prompts)

C11_Witness ==
    /\ pc = "done" /\ rejected = 0 /\ calls = 2
    /\ Len(prompts) = 2 /\ \A i \in 1..Len(prompts) : IsPlain(prompts[i])
    /\ Len(response[1].Completions) = 2

\* The turns main appended for a prompt: user turns that open with a text block.
IsPromptTurn(turn) == turn.role = "user" /\ turn.content[1].type = "text"
PromptTurns(h) == Len(SelectSeq(h, IsPromptTurn))

\* C12: when the tool-enabled main returns its response, every prompt of the
\* list has been processed: each one was appended to the log as a User turn.
C12_EveryPromptProcessed ==
    (pc = "done" /\ result = "response") => PromptTurns(messageHistory) = Len(prompts)

\* C13: the response returned by the tool-enabled main holds one completion
\* per prompt processed, however many tool rounds the conversation took.
C13_OneCompletionPerPrompt ==
    (pc = "done" /\ result = "response") =>
        Len(response[1].Completions) = PromptTurns(messageHistory)

\* The tool_use blocks of the last response whose name prefix is no registry key.
UnknownUses ==
    LET uses == ToolUses(responseContent)
    IN  {uses[i] : i \in {j \in 1..Len(uses) :
                             KeyIndex(clients, SplitServerName(uses[j].name)) = 0}}

MissingProviderMessage(use) ==
    <<"Client for server ">> \o SplitServerName(use.name) \o <<" not found">>

\* C14: a tool_use block whose name prefix is not a key of the registry never
\* reaches a tool-provider connection, and it is not dropped silently: its
\* round cannot record a Success; the Outcome the round records is a Failure
\* whose message names a missing provider, and after it the run only closes
\* its connections (no further provider request).
C14_UnknownProviderIsFailure ==
    /\ \A use \in UnknownUses :
          \A i \in 1..Len(invoked) : invoked[i].id /= use.id
    /\ (pc = "tools" /\ UnknownUses /= {}) => Unrouted /= {}
    /\ (recorded /\ UnknownUses /= {}) =>
          /\ failure.src = "routing"
          /\ IsError(Last(outputs))
          /\ \E use \in UnknownUses : Last(outputs).error = MissingProviderMessage(use)
          /\ pc \in {"finally", "done"}
          /\ result = "response"
          /\ Last(response[1].Completions).Error = Some(Last(outputs).error)

\* C14 witness: a round with an unknown and a known tool_use block ended; only
\* the known one was invoked and the Failure names the missing provider "x".
C14_Witness ==
    /\ pc = "done"
    /\ failure.src = "routing"
    /\ Len(launched) = 2
    /\ Len(invoked) = 1
    /\ Last(outputs).error = <<"Client for server ", "x", " not found">>

\* The name initializeMCPClients advertises for raw tool t of provider p.
AdvertisedName(p, t) == QualifiedName(NormalizeName(p), t)

\* C15: once the registry is built, for every configured provider (connection
\* c, name mcpServers[c]) and every raw tool name t it lists, callTool on the
\* name advertised for (provider, t) invokes connection c with tool name t.
C15_RoutingRoundTrip ==
    (pc /= "init" /\ connected = Len(mcpServers)) =>
        \A c \in 1..Len(mcpServers) :
            \A k \in 1..Len(ListTools(mcpServers[c])) :
                LET t == ListTools(mcpServers[c])[k]
                    use == ToolUseBlock(ToolUseId(1, 1), AdvertisedName(mcpServers[c], t))
                    call == RouteTool(use, clients)
                IN  call.conn = c /\ call.tool = t

RECURSIVE TextsOf(_, _)
\* The texts of the blocks of one type, concatenated in order.
TextsOf(blocks, type) ==
    IF blocks = <<>> THEN <<>>
    ELSE (IF Head(blocks).type = type THEN Head(blocks).text ELSE <<>>)
         \o TextsOf(Tail(blocks), type)

\* C16: for a response made of Text and Thinking blocks only, the output of
\* the recorded Success is the Thinking texts in order, one newline, then the
\* Text blocks in order; without a Thinking block it is the Text blocks alone.
C16_ThinkingThenOneDelimiter ==
    (recorded /\ ~IsError(Last(outputs)) /\ ToolUses(responseContent) = <<>>) =>
        Last(outputs).output =
            IF TextsOf(responseContent, "thinking") = <<>>
            THEN TextsOf(responseContent, "text")
            ELSE TextsOf(responseContent, "thinking") \o <<"\n">>
                 \o TextsOf(responseContent, "text")

Sent == {"sentLoop", "sentTool", "sentToolWide", "sentBasic", "sentImage"}

IsDirective(v) == "type" \in DOMAIN v

\* C17: in every connector variant the request carries an extended-reasoning
\* directive exactly when the model is a Claude 3.7 Sonnet model and a
\* non-zero thinking budget was supplied, with that budget; for any other
\* model the request carries no thinking entry at all.
C17_ThinkingOnlyWhenSupported ==
    pc \in Sent =>
        LET r == request[1]
            directive == Has(r, "thinking") /\ IsDirective(r.thinking)
        IN  /\ directive <=> (SupportsThinking(model) /\ ThinkingRequested(properties))
            /\ directive => r.thinking.budget_tokens = properties.thinking.number
            /\ ~SupportsThinking(model) => ~Has(r, "thinking")

\* C20: whatever the pass-through properties are, the request of the
\* loop-based and of the tool-enabled connector carries the conversation log
\* as messages, the requested model, the resolved system prompt and (tool-
\* enabled connector) the tool catalog of the registry.
C20_SystemFieldsWin ==
    pc \in {"sentLoop", "sentTool"} =>
        LET r == request[1]
        IN  /\ r.messages = messageHistory
            /\ r.model = model
            /\ r.system = SystemPrompt(properties)
            /\ pc = "sentTool" => r.tools = AllTools(clients)

IsPrefix(a, b) == Len(a) <= Len(b) /\ SubSeq(b, 1, Len(a)) = a

\* C18: the conversation log is append-only: over every step of a run the
\* log before the step is a prefix of the log after it.
C18_LogAppendOnly == [][IsPrefix(messageHistory, messageHistory')]_vars

\* C18 witness: a run went through a prompt append, a retry after a rate
\* limit, two tool-use appends, two tool-result appends and a final answer.
C18_Witness ==
    /\ pc = "done"
    /\ result = "response"
    /\ rounds = 1
    /\ calls >= 3
    /\ Len(messageHistory) = 5
    /\ ~IsError(Last(outputs))

\* C19: a provider call rejected with a rate limit while budget remains goes
\* back to the request with the log and the Outcome list unchanged and the
\* budget one lower, and the request then issued equals the rejected one
\* (same conversation, system prompt, tool catalog and parameters).
C19_RetryFrame ==
    [][ /\ (pc = "awaitModel" /\ pc' = "request") =>
              /\ retries > 0
              /\ retries' = retries - 1
              /\ messageHistory' = messageHistory
              /\ outputs' = outputs
        /\ (pc = "request" /\ pc' = "awaitModel" /\ ~recorded /\ roundCalls > 0) =>
              request' = request
      ]_vars

\* C19 witness: in the round after a tool round, a request rejected with a
\* rate limit has been issued again.
C19_Witness ==
    /\ pc = "awaitModel"
    /\ rounds = 1
    /\ roundRateFails = 1
    /\ roundCalls = 2
    /\ retries = DefaultRetries - 1
    /\ Len(outputs) = 1
    /\ request /= Null

\* C21: when reading an attachment of a prompt fails, main rejects with that
\* error, the prompt gets no User turn, no provider request is issued for it,
\* and every tool-provider connection that was opened has been closed.
C21_AttachmentFailureIsFatal ==
    failure.src = "attachment" =>
        /\ result = "raised"
        /\ response = Null
        /\ PromptTurns(messageHistory) = index
        /\ calls = index
        /\ pc \in {"finally", "done"}
        /\ pc = "done" => \A c \in opened : closed[c] = 1

\* C22: the step that records a Success goes on to a new provider request
\* exactly when the response of the round held a tool_use block, and every
\* provider request that was issued leads to the run returning a response.
C22_RecursionAndTermination ==
    /\ [][ (pc = "tools" /\ recorded' /\ ~IsError(Last(outputs'))) =>
              (pc' = "request" <=> ToolUses(responseContent) /= <<>>) ]_vars
    /\ (pc = "awaitModel") ~> (pc = "done" /\ result = "response")

\* C22 witness: a run that recursed once after a tool round has returned.
C22_Witness ==
    /\ pc = "done"
    /\ result = "response"
    /\ rounds = 1
    /\ Len(outputs) = 2
    /\ ~IsError(Last(outputs))
    /\ ToolUses(responseContent) = <<>>

\* the part of a reference after its last '.', compared without regard to case
SameIgnoringCase(a, b) ==
    /\ Len(a) = Len(b)
    /\ \A i \in 1..Len(a) : LowerChar(a[i]) = LowerChar(b[i])

HasExtension(url, e) ==
    \E k \in 1..Len(url) :
        /\ url[k] = "."
        /\ \A j \in (k + 1)..Len(url) : url[j] /= "."
        /\ SameIgnoringCase(SubSeq(url, k + 1, Len(url)), e)

ImageExtensionNames ==
    { <<"p","n","g">>, <<"j","p","e","g">>, <<"j","p","g">>,
      <<"w","e","b","p">>, <<"g","i","f">> }

PhotoPNG == <<"p","h","o","t","o",".","P","N","G">>
NotesTXT == <<"n","o","t","e","s",".","T","X","T">>

InSeq(x, s) == \E i \in 1..Len(s) : s[i] = x

\* C23: extractUrls puts a matched reference, without its quotes, among the
\* images when the part after its last '.' is png, jpeg, jpg, webp or gif in
\* any letter case, among the documents when it is pdf, and nowhere otherwise;
\* the quoted notes.TXT is never an attachment and the quoted photo.PNG is an
\* image.
C23_ClassifiedByExtension ==
    /\ [][ (pc = "classify" /\ urls /= <<>>) =>
              LET url == StripQuotes(Head(urls))
              IN  /\ extracted'.imageUrls =
                        IF \E e \in ImageExtensionNames : HasExtension(url, e)
                        THEN Append(extracted.imageUrls, url)
                        ELSE extracted.imageUrls
                  /\ extracted'.pdfUrls =
                        IF HasExtension(url, <<"p","d","f">>)
                        THEN Append(extracted.pdfUrls, url)
                        ELSE extracted.pdfUrls
                  /\ Head(urls) = Quoted("\"", PhotoPNG) =>
                        InSeq(PhotoPNG, extracted'.imageUrls) ]_vars
    /\ [](~InSeq(NotesTXT, extracted.imageUrls \o extracted.pdfUrls))

\* C23 witness: extractUrls has returned with photo.PNG, quotes removed, as the
\* only attachment it found.
C23_Witness ==
    /\ pc = "extracted"
    /\ extracted.imageUrls = <<PhotoPNG>>
    /\ extracted.pdfUrls = <<>>

\* C24: when the completion of a tool call of a response is handled, the
\* invocation of every tool call of that response has already been issued.
C24_FanOut ==
    [][ (pending' /= pending /\ pending' \subseteq pending) =>
           \A i \in 1..Len(ToolUses(responseContent)) :
               LET call == RouteTool(ToolUses(responseContent)[i], clients)
               IN  IsRouted(call) => InSeq(call, invoked) ]_vars

\* C24 witness: two tool calls of one response are in flight, both invoked,
\* and no completion has been handled.
C24_Witness ==
    /\ pc = "tools"
    /\ Len(launched) = 2
    /\ Cardinality(pending) = 2
    /\ Unrouted = {}
    /\ \A q \in pending : InSeq(q, invoked)
    /\ \A i \in 1..Len(launched) : ~HasToolResult(messageHistory, launched[i])

\* number of places where sub occurs in s
Occurrences(sub, s) ==
    Cardinality({k \in 1..(Len(s) - Len(sub) + 1) :
                    SubSeq(s, k, k + Len(sub) - 1) = sub})

ResultTurns(h, id) ==
    Cardinality({i \in 1..Len(h) : HasBlock(h[i], "tool_result", id)})

\* the round's tool calls were joined with every call succeeded
JoinedRound ==
    /\ pc = "request"
    /\ recorded
    /\ launched /= <<>>
    /\ ~IsError(Last(outputs))

\* C25: after the join of a round whose tool calls all succeeded, in whatever
\* order they completed, the log holds exactly one tool_result turn per
\* tool_use id of the round, and the output of the round holds exactly one call
\* rendering and one result rendering per tool_use block.
C25_NoLostUpdate ==
    JoinedRound =>
        /\ Len(ToolUses(responseContent)) = Len(launched)
        /\ \A i \in 1..Len(launched) :
              LET use == ToolUses(responseContent)[i]
              IN  /\ use.id = launched[i]
                  /\ ResultTurns(messageHistory, use.id) = 1
                  /\ Occurrences(CallRendering(use), Last(outputs).output) = 1
                  /\ Occurrences(ResultRendering(ToolResult(RouteTool(use, clients))),
                                 Last(outputs).output) = 1

\* C25 witness: a round with two tool calls has been joined.
C25_Witness ==
    /\ JoinedRound
    /\ Len(launched) = 2

\* the ids of the tool_result turns of log h, in log order
RECURSIVE ResultIds(_)
ResultIds(h) ==
    IF h = <<>> THEN <<>>
    ELSE (IF h[1].role = "user" /\ h[1].content[1].type = "tool_result"
          THEN <<h[1].content[1].id>> ELSE <<>>) \o ResultIds(Tail(h))

\* where the result rendering of tool_use block `use` stands in the output
RenderingPosition(use, out) ==
    LET sub == ResultRendering(ToolResult(RouteTool(use, clients)))
    IN  CHOOSE k \in 1..Len(out) : SubSeq(out, k, k + Len(sub) - 1) = sub

\* C26: after the join of a round whose tool calls all succeeded, the
\* tool_result turns of the round stand in the log, and the result renderings
\* in the output, in the order in which the response requested the calls,
\* whatever the order in which the calls completed.
C26_MergedInRequestOrder ==
    JoinedRound =>
        /\ SubSeq(ResultIds(messageHistory),
                  Len(ResultIds(messageHistory)) - Len(launched) + 1,
                  Len(ResultIds(messageHistory))) = launched
        /\ \A i, j \in 1..Len(launched) :
              i < j => RenderingPosition(ToolUses(responseContent)[i],
                                         Last(outputs).output)
                         < RenderingPosition(ToolUses(responseContent)[j],
                                             Last(outputs).output)

\* C27: no connection is closed more than once, none is closed while a tool
\* call dispatched on it is still in flight, and the log does not change once
\* main has settled.
C27_ClosedOnlyAtTeardown ==
    /\ [](\A c \in DOMAIN closed : closed[c] <= 1)
    /\ [](\A q \in pending : IsRouted(q) => closed[q.conn] = 0)
    /\ [][pc = "done" => messageHistory' = messageHistory]_vars

\* a step in which a dispatched tool call rejects while its round is open
ToolFailsInRound ==
    /\ pc = "tools"
    /\ Unrouted = {}
    /\ pending' /= pending
    /\ messageHistory' = messageHistory

\* C28: the failure of a dispatched tool call ends the round: the step appends
\* one Failure Outcome with the tool's error message and returns to main; from
\* then on the run has exactly one Failure Outcome, which is the only Outcome
\* of that round, and no provider request is issued any more.
C28_ToolFailureIsTerminal ==
    /\ [][ ToolFailsInRound =>
              /\ outputs' = Append(outputs, mapErrorToCompletion(ToolError, model))
              /\ failure'.src = "tool"
              /\ pc' \in {"finally", "done"}
              /\ calls' = calls ]_vars
    /\ [](failure.src = "tool" =>
              /\ pc \in {"finally", "done"}
              /\ recorded
              /\ ErrorCount(outputs) = 1
              /\ Last(outputs).error = ToolError.message
              /\ Len(outputs) = rounds
              /\ \A i \in 1..(rounds - 1) : ~IsError(outputs[i])
              /\ result = "response")
    /\ [][failure.src = "tool" => calls' = calls]_vars

\* C28 witness: the run has ended after one of two dispatched tool calls
\* failed.
C28_Witness ==
    /\ failure.src = "tool"
    /\ pc = "done"
    /\ Len(launched) = 2
    /\ IsError(Last(outputs))

\* the positions of log h after position i that hold a tool_result for id
LaterResults(h, i, id) ==
    {j \in (i + 1)..Len(h) : HasBlock(h[j], "tool_result", id)}

\* C29: whenever a provider request of processModelRequest is in flight, the
\* log it was built from is non-empty, ends with a user turn, and holds for
\* every tool_use block exactly one tool_result block of the same id, at a
\* later position.
C29_LogWellFormedAtRequest ==
    pc = "awaitModel" =>
        /\ messageHistory /= <<>>
        /\ Last(messageHistory).role = "user"
        /\ request /= Null
        /\ request[1].messages = messageHistory
        /\ \A i \in 1..Len(messageHistory) :
              \A k \in 1..Len(messageHistory[i].content) :
                  LET block == messageHistory[i].content[k]
                  IN  block.type = "tool_use" =>
                        /\ Cardinality(LaterResults(messageHistory, i, block.id)) = 1
                        /\ ResultTurns(messageHistory, block.id) = 1

\* C29 witness: the request that follows a round with two tool calls is in
\* flight.
C29_Witness ==
    /\ pc = "awaitModel"
    /\ rounds = 1
    /\ recorded = FALSE
    /\ Len(outputs) = 1
    /\ Len(launched) = 2
    /\ Len(messageHistory) >= 5

\* C30: the first provider call of every round is made with the full budget of
\* 3 retries; within a round the budget falls by one per rate-limit failure,
\* so a round sees at most 4 rate-limit failures, the fourth of which is
\* recorded as the Failure Outcome; a retry leaves the Outcomes recorded by
\* earlier rounds as they are, and the Failure is appended after them.
C30_RetryBudgetPerRound ==
    /\ []((pc = "awaitModel" /\ roundCalls = 1) => retries = DefaultRetries)
    /\ []((pc \in {"request", "awaitModel"} /\ ~recorded) =>
              retries + roundRateFails = DefaultRetries)
    /\ [](roundRateFails <= DefaultRetries + 1)
    /\ [](RateLimitExhausted =>
              /\ roundRateFails = DefaultRetries + 1
              /\ Len(outputs) = rounds + 1
              /\ \A i \in 1..rounds : ~IsError(outputs[i]))
    /\ [][ (pc = "awaitModel" /\ pc' = "request") =>
              outputs' = outputs /\ retries' = retries - 1 ]_vars

\* C30 witness: the second round ran out of its own four calls after the
\* first round had already used three retries.
C30_Witness ==
    /\ RateLimitExhausted
    /\ rounds = 1
    /\ Len(outputs) = 2
    /\ roundRateFails = DefaultRetries + 1
    /\ calls = 2 * (DefaultRetries + 1)

\* the suffix of s of the length of t is t
IsSuffix(t, s) ==
    Len(t) <= Len(s) /\ SubSeq(s, Len(s) - Len(t) + 1, Len(s)) = t

\* the texts of the thinking blocks the provider may return
ThinkingSamples ==
    UNION { {c[i].text : i \in {j \in 1..Len(c) : c[j].type = "thinking"}} :
              c \in TextContents }

\* C31: in the loop-based connector, when every earlier prompt recorded a
\* Success, the request in flight for prompt k carries 2k-1 turns: the user
\* turn of prompt i at position 2i-1 and, at position 2i, an assistant turn
\* with one text block holding the text answer of prompt i without its
\* thinking content.
C31_WholeConversationSent ==
    (pc = "awaitModel" /\ Len(outputs) = index /\ ErrorCount(outputs) = 0) =>
        LET sent == request[1].messages
            k == index + 1
        IN  /\ sent = messageHistory
            /\ Len(sent) = 2 * k - 1
            /\ \A i \in 1..k : sent[2 * i - 1] = UserTurn(prompts[i])
            /\ \A i \in 1..(k - 1) :
                  /\ sent[2 * i].role = "assistant"
                  /\ Len(sent[2 * i].content) = 1
                  /\ sent[2 * i].content[1].type = "text"
                  /\ sent[2 * i].content[1].text /= <<>>
                  /\ IsSuffix(sent[2 * i].content[1].text, outputs[i].output)
                  /\ \A t \in ThinkingSamples :
                        \A j \in 1..Len(t) :
                            ~InSeq(t[j], sent[2 * i].content[1].text)

\* C31 witness: the request for the second prompt is in flight after the
\* first prompt was answered with thinking content.
C31_Witness ==
    /\ pc = "awaitModel"
    /\ index = 1
    /\ Len(outputs) = 1
    /\ ErrorCount(outputs) = 0
    /\ Len(outputs[1].output) > Len(messageHistory[2].content[1].text)
    /\ Len(request[1].messages) = 3

\* the tool lists of the configured providers, in configuration order, each
\* tool renamed to normalizedProviderName_rawToolName
ConfiguredCatalog ==
    Flatten([c \in 1..Len(mcpServers) |->
                [k \in 1..Len(ListTools(mcpServers[c])) |->
                    QualifiedName(NormalizeName(mcpServers[c]),
                                  ListTools(mcpServers[c])[k])]])

\* C32: once the registry is built every configured provider has an entry of
\* its own in it, and the tools parameter of every provider request is the
\* catalog of all configured providers.
C32_CatalogOfEveryProvider ==
    /\ (pc /= "init" /\ connected = Len(mcpServers)) =>
          \A c \in 1..Len(mcpServers) :
              \E i \in 1..Len(clients) : clients[i].conn = c
    /\ request /= Null => request[1].tools = ConfiguredCatalog

\* C33: a run on an empty prompt list that met no connection failure makes no
\* provider call and ends by returning a response with no completions and
\* the requested model as ModelType.
C33_EmptyPromptList ==
    (pc \in {"finally", "done"} /\ prompts = <<>> /\ failure.src = "none") =>
        /\ calls = 0
        /\ result = "response"
        /\ response /= Null
        /\ response[1].Completions = <<>>
        /\ response[1].ModelType = model

\* C34: every Success Outcome records the model the caller requested, and in
\* every response main returns ModelType is that model, whatever name the
\* provider reported back.
C34_ModelTypeIsRequestedModel ==
    /\ \A i \in 1..Len(outputs) :
          ~IsError(outputs[i]) => outputs[i].stats.model = model
    /\ (result = "response" /\ response /= Null) =>
          response[1].ModelType = model

\* C34 witness: main has returned a Success followed by a Failure for a model
\* alias that the provider reports under another name.
C34_Witness ==
    /\ pc = "done"
    /\ result = "response"
    /\ ReportedModel(model) /= model
    /\ Len(outputs) = 2
    /\ ~IsError(outputs[1])
    /\ IsError(outputs[2])
    /\ response[1].ModelType = model

====
